---- MODULE Spec2Model ----
(***************************************************************************)
(* twitter-video-threads: the traversal-and-download loop of src/index.ts. *)
(*                                                                         *)
(* The program is one Node.js event loop.  A controller promise chain      *)
(* (downloadTweet -> getTweetJson -> fetchVideo -> runFfmpeg ->            *)
(* findNextTweet -> downloadTweet ...) is suspended either on an HTTP      *)
(* fetch or on an ffmpeg session; while it is suspended the event loop     *)
(* delivers the fetch result, the timers of every ffmpeg session created   *)
(* so far, and the stderr/close events of every ffmpeg process not yet     *)
(* closed.  Promise continuations are microtasks: no timer or I/O event    *)
(* runs between them, so those events are enabled only at the two          *)
(* suspension points.  An interrupt signal has no handler and ends the     *)
(* process at any point.                                                   *)
(***************************************************************************)
EXTENDS Integers, Sequences, FiniteSets, TLC

\* ---------------------------------------------------------------- bounds
\* Post ids served by the API are 1..MaxId.
MaxId == 3
\* Largest --limit value tried (besides the default, Infinity).
MaxLimit == 2
\* Cap on the number of HTTP fetches started in one run.
MaxFetches == 3
\* Cap on the number of ffmpeg sessions spawned in one run.
MaxSessions == 2

\* ------------------------------------------------------------- constants
\* A Buffer of stderr output either includes the overwrite prompt or not.
OverwritePrompt == "already exists. Overwrite? [y/N]"
ManifestType == "application/x-mpegURL"
\* HTTP status of a response that is not ok.
NotFound == 404
\* process.exit codes used by the program.
ExitClean == 0
ExitError == 1

\* ------------------------------------------------------------ value sets
PostIds == 1..MaxId
\* in_reply_to_status_id_str / quoted_status_id_str absent (null).
NoId == 0
\* The positional tweetID is any numeric string, "0" included.
StartIds == 0..MaxId
\* An option that was not given is <<>>; a given value v is <<v>>.
\* limit defaults to Infinity, modelled as the absent bound <<>>.
Limits == {<<>>} \cup {<<n>> : n \in 0..MaxLimit}
StopAts == {<<>>} \cup {<<b>> : b \in 0..MaxId}

\* tweet.extended_entities as the API serves it.  An optional value is <<>>
\* when undefined and <<v>> when present; media is a non-empty list; a
\* variant is represented by its content_type.
\*   no extended_entities                       (a text-only post)
\*   media[0] without video_info                (a photo)
\*   variants without a manifest                (an animated GIF: mp4 only)
\*   variants with a manifest                   (a video)
Mp4Type == "video/mp4"
ExtendedEntities ==
  { <<>>,
    <<[media |-> <<[video_info |-> <<>>]>>]>>,
    <<[media |-> <<[video_info |-> <<[variants |-> <<Mp4Type>>]>>]>>]>>,
    <<[media |-> <<[video_info |-> <<[variants |-> <<Mp4Type, ManifestType>>]>>]>>]>> }

\* ffmpeg's exit status as the close event reports it: 0, nonzero, or
\* null (-1 here) when the process was ended by the kill() signal.
null == -1

VARIABLES
  cliArgs,          \* argv: [tweetID, limit, stopAt]
  stopAtTweetInt,   \* <<>> for false, <<n>> for BigInt n
  tweetCounter,
  failedDownloads,  \* Map<string,string>: function from a set of ids
  pc,               \* where the controller is
  tweetID,          \* parameter of the running downloadTweet / getTweetJson
  tweet,            \* parameter of the running fetchVideo ([] when none)
  frames,           \* tweets of the fetchVideo calls suspended at line 137
  sessions,         \* every runFfmpeg session created so far
  reported,         \* what reportExit printed, one record per call
  exitCode,         \* <<>> until process.exit(code) sets <<code>>
  exitReason,       \* which statement ended the process
  fetchLog,         \* history: every fetch started, in order
  served,           \* history: id and reply-parent of every tweet served
  fetchFailure      \* history: <<>> or <<[id, kind, counter, fetches]>>

vars == <<cliArgs, stopAtTweetInt, tweetCounter, failedDownloads, pc, tweetID,
          tweet, frames, sessions, reported, exitCode, exitReason, fetchLog,
          served, fetchFailure>>

NoTweet == [id_str |-> NoId, in_reply_to_status_id_str |-> NoId,
            quoted_status_id_str |-> NoId, extended_entities |-> <<>>]

\* ------------------------------------------------------------- helpers
\* Ids are represented by the integers their decimal strings denote, so
\* BigInt(tweetID) is that integer.  stopAtTweetInt may be false: the
\* relational comparison BigInt <= false converts false to the number 0.
ToNumeric(v) == IF v = <<>> THEN 0 ELSE v[1]

\* Mutant: the boundary itself is still fetched (a strict comparison).
ReachedStopAt_Strict(id) == id < ToNumeric(stopAtTweetInt)

\* BigInt(tweetID) <= stopAtTweetInt
ReachedStopAt(id) == id <= ToNumeric(stopAtTweetInt)

\* tweetCounter >= cliArgs.limit, where limit may be Infinity.
ReachedLimit(counter) == cliArgs.limit # <<>> /\ counter >= cliArgs.limit[1]

\* `Download failed with a ${res.status} error.`
HttpReason(status) ==
  IF status = NotFound THEN "Download failed with a 404 error."
  ELSE "Download failed with an error."

\* failedDownloads.set(id, reason)
MapSet(map, id, reason) ==
  [k \in DOMAIN map \cup {id} |-> IF k = id THEN reason ELSE map[k]]

\* Mutant: the failing id is not recorded before the error is thrown.
RecordHttpFailure_Skipped(id, status) == failedDownloads

\* failedDownloads.set(tweetID, `Download failed with a ${res.status} error.`)
RecordHttpFailure(id, status) == MapSet(failedDownloads, id, HttpReason(status))

\* One call of reportExit: the message, the count and the failures it
\* prints (failuresLog is the whole map at the time of the call).
ReportExit(message, counter, ledger) ==
  [message |-> message, processed |-> counter, failures |-> ledger]

\* process.exit(code): nothing of the program runs afterwards.
Exit(code, reason) ==
  /\ pc' = "exited"
  /\ exitCode' = <<code>>
  /\ exitReason' = reason

\* The event loop delivers timer and I/O events only while the controller
\* is suspended on a fetch or on an ffmpeg session.
Idle == pc \in {"getTweetJson", "runFfmpeg"}

\* The tweet that the outermost fetchVideo call returns to findNextTweet:
\* every suspended frame returns its own tweet after the await (line 140).
MainTweet_Innermost == tweet

MainTweet == IF frames = <<>> THEN tweet ELSE frames[1]

\* ---------------------------------------------------------------- Init
NoArgs == [tweetID |-> NoId, limit |-> <<>>, stopAt |-> <<>>]

Init ==
  /\ cliArgs = NoArgs
  /\ stopAtTweetInt = <<>>
  /\ tweetCounter = 0
  /\ failedDownloads = <<>>
  /\ pc = "handleCommand"
  /\ tweetID = NoId
  /\ tweet = NoTweet
  /\ frames = <<>>
  /\ sessions = <<>>
  /\ reported = <<>>
  /\ exitCode = <<>>
  /\ exitReason = ""
  /\ fetchLog = <<>>
  /\ served = <<>>
  /\ fetchFailure = <<>>

\* ------------------------------------------------------- handleCommand
\* mkdirOk: the destination exists or mkdirSync created it.
HandleCommand ==
  /\ pc = "handleCommand"
  /\ \E id \in StartIds, limit \in Limits, stopAt \in StopAts, mkdirOk \in BOOLEAN :
       /\ cliArgs' = [tweetID |-> id, limit |-> limit, stopAt |-> stopAt]
       /\ stopAtTweetInt' = stopAt
       /\ IF mkdirOk
          THEN /\ pc' = "downloadTweet"
               /\ tweetID' = id
               /\ UNCHANGED <<exitCode, exitReason>>
          ELSE /\ Exit(ExitError, "mkdir")
               /\ UNCHANGED tweetID
  /\ UNCHANGED <<tweetCounter, failedDownloads, tweet, frames, sessions,
                 reported, fetchLog, served, fetchFailure>>

\* ------------------------------------------------------- downloadTweet
StartFetch(id, main) ==
  /\ Len(fetchLog) < MaxFetches
  /\ pc' = "getTweetJson"
  /\ tweetID' = id
  /\ fetchLog' = Append(fetchLog, [id |-> id, main |-> main])

DownloadTweet ==
  /\ pc = "downloadTweet"
  /\ IF ReachedStopAt(tweetID)
     THEN /\ reported' = Append(reported,
                 ReportExit("Reached or passed the requested id.",
                            tweetCounter, failedDownloads))
          /\ Exit(ExitClean, "stop-at")
          /\ UNCHANGED <<tweetID, fetchLog>>
     ELSE /\ StartFetch(tweetID, TRUE)
          /\ UNCHANGED <<reported, exitCode, exitReason>>
  /\ UNCHANGED <<cliArgs, stopAtTweetInt, tweetCounter, failedDownloads, tweet,
                 frames, sessions, served, fetchFailure>>

\* -------------------------------------------------------- getTweetJson
\* What the API may serve for tweetID.  Ids grow with time and a post
\* replies to, or quotes, a post that existed before it, so reply chains
\* and quote chains are finite and acyclic.  quoted_status_id_str is read
\* only when extended_entities is absent (line 134): the posts served with
\* extended_entities carry none.
Earlier(id) == {NoId} \cup {j \in PostIds : j < id}

Tweets(id) ==
  { t \in [id_str : {id},
           in_reply_to_status_id_str : Earlier(id),
           quoted_status_id_str : Earlier(id),
           extended_entities : ExtendedEntities] :
      t.extended_entities # <<>> => t.quoted_status_id_str = NoId }

\* res.ok: res.json() is handed to fetchVideo.
FetchOk ==
  /\ pc = "getTweetJson"
  /\ \E t \in Tweets(tweetID) :
       /\ tweet' = t
       /\ pc' = "fetchVideo"
       /\ served' = Append(served,
              [id_str |-> t.id_str,
               in_reply_to_status_id_str |-> t.in_reply_to_status_id_str,
               main |-> frames = <<>>])
  /\ UNCHANGED <<cliArgs, stopAtTweetInt, tweetCounter, failedDownloads, tweetID,
                 frames, sessions, reported, exitCode, exitReason, fetchLog,
                 fetchFailure>>

\* !res.ok: lines 102-107 record the failure and throw HTTPResponseError;
\* the catch of lines 109-121 reports and exits.
FetchHttpError ==
  /\ pc = "getTweetJson"
  /\ \E status \in {NotFound} :
       /\ failedDownloads' = RecordHttpFailure(tweetID, status)
       /\ reported' = Append(reported,
              ReportExit("Nothing left to download, exiting cleanly.",
                         tweetCounter, failedDownloads'))
  /\ Exit(ExitError, "http")
  /\ fetchFailure' = <<[id |-> tweetID, kind |-> "http",
                        counter |-> tweetCounter, fetches |-> Len(fetchLog)]>>
  /\ UNCHANGED <<cliArgs, stopAtTweetInt, tweetCounter, tweetID, tweet, frames,
                 sessions, fetchLog, served>>

\* fetch (or res.json()) rejects: the error has no `response`, so
\* error.response.text() at line 112 throws a TypeError inside the catch
\* handler, before reportExit; getTweetJson's promise rejects and the catch
\* of downloadTweet (lines 74-78) exits.
FetchTransportError ==
  /\ pc = "getTweetJson"
  /\ Exit(ExitError, "catch")
  /\ fetchFailure' = <<[id |-> tweetID, kind |-> "transport",
                        counter |-> tweetCounter, fetches |-> Len(fetchLog)]>>
  /\ UNCHANGED <<cliArgs, stopAtTweetInt, tweetCounter, failedDownloads, tweetID,
                 tweet, frames, sessions, reported, fetchLog, served>>

\* ---------------------------------------------------------- fetchVideo
\* tweet.extended_entities.media?.[0].video_info?.variants?.filter(...):
\* <<>> when the chain is undefined, else <<the filtered list>>.
IsManifest(variant) == variant = ManifestType

VideoInfo(t) ==
  LET media == t.extended_entities[1].media
      video_info == media[1].video_info
  IN  IF video_info = <<>>
      THEN <<>>
      ELSE <<SelectSeq(video_info[1].variants, IsManifest)>>

NewSession(id) ==
  [id_str |-> id,
   closed |-> FALSE,          \* the close event was delivered
   killed |-> FALSE,          \* ffmpegReq.kill() was called
   ffmpegCheckin |-> TRUE,    \* the interval is active
   ffmpegTimeout |-> TRUE,    \* the timeout is pending
   fFmpegOutput |-> FALSE,    \* the set of stderr chunks is non-empty
   resolved |-> "",           \* the event that called resolve first
   code |-> <<>>]             \* the close event's code

\* fetchVideo returns: every suspended frame returns too, and the promise
\* chain of downloadTweet goes on to findNextTweet with the outermost tweet.
ReturnTweet ==
  /\ pc' = "findNextTweet"
  /\ tweet' = MainTweet
  /\ frames' = <<>>

\* if (tweet.quoted_status_id_str), asked of whichever tweet fetchVideo was
\* handed: a main-chain one or one reached through a quote.
HasQuoted_Always(t) == TRUE

HasQuoted_DepthOne(t) == frames = <<>> /\ t.quoted_status_id_str # NoId

HasQuoted_AboveStopAt(t) ==
  /\ t.quoted_status_id_str # NoId
  /\ ~ReachedStopAt(t.quoted_status_id_str)

HasQuoted(t) == t.quoted_status_id_str # NoId

FetchVideo ==
  /\ pc = "fetchVideo"
  /\ IF tweet.extended_entities = <<>>
     THEN IF HasQuoted(tweet)
          THEN /\ StartFetch(tweet.quoted_status_id_str, FALSE)
               /\ frames' = Append(frames, tweet)
               /\ tweet' = NoTweet
               /\ UNCHANGED <<sessions, exitCode, exitReason>>
          ELSE /\ ReturnTweet
               /\ UNCHANGED <<tweetID, sessions, exitCode, exitReason, fetchLog>>
     ELSE IF VideoInfo(tweet) = <<>>
     THEN /\ ReturnTweet
          /\ UNCHANGED <<tweetID, sessions, exitCode, exitReason, fetchLog>>
     ELSE IF VideoInfo(tweet)[1] = <<>>
     THEN \* videoInfo[0].url of an empty list: a TypeError, which rejects
          \* fetchVideo's promise; the catch of downloadTweet exits.
          /\ Exit(ExitError, "catch")
          /\ UNCHANGED <<tweetID, tweet, frames, sessions, fetchLog>>
     ELSE /\ Len(sessions) < MaxSessions
          /\ sessions' = Append(sessions, NewSession(tweet.id_str))
          /\ pc' = "runFfmpeg"
          /\ UNCHANGED <<tweetID, tweet, frames, exitCode, exitReason, fetchLog>>
  /\ UNCHANGED <<cliArgs, stopAtTweetInt, tweetCounter, failedDownloads,
                 reported, served, fetchFailure>>

\* ----------------------------------------------------------- runFfmpeg
\* resolve(tweet) of session i.  Only the first call settles the promise;
\* the controller, suspended on it, then goes on.  Later calls do nothing.
Resolve(i, session, event) ==
  IF sessions[i].resolved = ""
  THEN /\ sessions' = [sessions EXCEPT ![i] = [session EXCEPT !.resolved = event]]
       /\ ReturnTweet
  ELSE /\ sessions' = [sessions EXCEPT ![i] = session]
       /\ UNCHANGED <<pc, tweet, frames>>

\* The setInterval callback, lines 195-202.
FfmpegCheckin(i) ==
  /\ Idle
  /\ sessions[i].ffmpegCheckin
  /\ sessions' = [sessions EXCEPT ![i].fFmpegOutput = FALSE]
  /\ UNCHANGED <<cliArgs, stopAtTweetInt, tweetCounter, failedDownloads, pc,
                 tweetID, tweet, frames, reported, exitCode, exitReason,
                 fetchLog, served, fetchFailure>>

\* The setTimeout callback, lines 203-217.
FfmpegTimeout(i) ==
  /\ Idle
  /\ sessions[i].ffmpegTimeout
  /\ failedDownloads' = MapSet(failedDownloads, sessions[i].id_str, "timeout")
  /\ Resolve(i, [sessions[i] EXCEPT !.ffmpegTimeout = FALSE,
                                    !.fFmpegOutput = FALSE,
                                    !.ffmpegCheckin = FALSE,
                                    !.killed = TRUE],
             "timeout")
  /\ UNCHANGED <<cliArgs, stopAtTweetInt, tweetCounter, tweetID, reported,
                 exitCode, exitReason, fetchLog, served, fetchFailure>>

\* The stderr "data" listener, lines 219-230.  The stream delivers chunks
\* until the process is closed; data is a chunk of the process's output.
StderrData(i, data) ==
  /\ Idle
  /\ ~sessions[i].closed
  /\ IF data = OverwritePrompt
     THEN /\ failedDownloads' =
                MapSet(failedDownloads, sessions[i].id_str, "already exists")
          /\ Resolve(i, [sessions[i] EXCEPT !.killed = TRUE,
                                            !.fFmpegOutput = TRUE],
                     "already exists")
     ELSE /\ sessions' = [sessions EXCEPT ![i].fFmpegOutput = TRUE]
          /\ UNCHANGED <<failedDownloads, pc, tweet, frames>>
  /\ UNCHANGED <<cliArgs, stopAtTweetInt, tweetCounter, tweetID, reported,
                 exitCode, exitReason, fetchLog, served, fetchFailure>>

\* The exit status the close event carries: null when the signal of
\* kill() ended the process, else the status ffmpeg exited with.
CloseCodes(session) == IF session.killed THEN {null} ELSE {0, 1}

\* The "close" listener, lines 232-245.
FfmpegClose(i, code) ==
  /\ Idle
  /\ ~sessions[i].closed
  /\ code \in CloseCodes(sessions[i])
  /\ Resolve(i, [sessions[i] EXCEPT !.closed = TRUE,
                                    !.ffmpegCheckin = FALSE,
                                    !.ffmpegTimeout = FALSE,
                                    !.code = <<code>>],
             "close")
  /\ UNCHANGED <<cliArgs, stopAtTweetInt, tweetCounter, failedDownloads, tweetID,
                 reported, exitCode, exitReason, fetchLog, served, fetchFailure>>

\* -------------------------------------------------------- findNextTweet
\* tweetCounter++
NextCounter == tweetCounter + 1

FindNextTweet ==
  /\ pc = "findNextTweet"
  /\ tweetCounter' = NextCounter
  /\ IF ReachedLimit(tweetCounter')
     THEN /\ reported' = Append(reported,
                 ReportExit("Reached the limit of tweets to process",
                            tweetCounter', failedDownloads))
          /\ Exit(ExitClean, "limit")
          /\ UNCHANGED <<tweetID, tweet>>
     ELSE IF tweet.in_reply_to_status_id_str # NoId
     THEN /\ pc' = "downloadTweet"
          /\ tweetID' = tweet.in_reply_to_status_id_str
          /\ tweet' = NoTweet
          /\ UNCHANGED <<reported, exitCode, exitReason>>
     ELSE /\ reported' = Append(reported,
                 ReportExit("Reached the beginning of the thread.",
                            tweetCounter', failedDownloads))
          /\ Exit(ExitClean, "beginning")
          /\ UNCHANGED <<tweetID, tweet>>
  /\ UNCHANGED <<cliArgs, stopAtTweetInt, failedDownloads, frames, sessions,
                 fetchLog, served, fetchFailure>>

\* -------------------------------------------------------------- SIGINT
\* No listener for SIGINT is installed: the default disposition ends the
\* process at once, at any point of the run.
Running == pc \notin {"exited", "killed"}

Sigint ==
  /\ Running
  /\ pc' = "killed"
  /\ exitReason' = "SIGINT"
  /\ UNCHANGED <<cliArgs, stopAtTweetInt, tweetCounter, failedDownloads, tweetID,
                 tweet, frames, sessions, reported, exitCode, fetchLog,
                 served, fetchFailure>>

\* ---------------------------------------------------------------- Next
Next ==
  \/ HandleCommand
  \/ DownloadTweet
  \/ FetchOk
  \/ FetchHttpError
  \/ FetchTransportError
  \/ FetchVideo
  \/ \E i \in 1..Len(sessions) : FfmpegCheckin(i)
  \/ \E i \in 1..Len(sessions) : FfmpegTimeout(i)
  \/ \E i \in 1..Len(sessions) : StderrData(i, OverwritePrompt)
  \/ \E i \in 1..Len(sessions) : StderrData(i, "frame=")
  \/ \E i \in 1..Len(sessions), code \in {null, 0, 1} : FfmpegClose(i, code)
  \/ FindNextTweet
  \/ Sigint

Spec == Init /\ [][Next]_vars

\* ------------------------------------------------------------ typing
TypeOK ==
  /\ pc \in {"handleCommand", "downloadTweet", "getTweetJson", "fetchVideo",
             "runFfmpeg", "findNextTweet", "exited", "killed"}
  /\ tweetCounter \in Nat
  /\ exitCode \in {<<>>, <<ExitClean>>, <<ExitError>>}
  /\ Len(fetchLog) <= MaxFetches
  /\ Len(sessions) <= MaxSessions
  /\ Len(reported) <= 1
  /\ DOMAIN failedDownloads \subseteq PostIds
  \* The controller waits on the newest session, and on no other.
  /\ \A i \in 1..Len(sessions) :
       sessions[i].resolved = "" => pc \in {"runFfmpeg", "killed"} /\ i = Len(sessions)
  /\ pc = "runFfmpeg" => sessions # <<>> /\ sessions[Len(sessions)].resolved = ""

\* ================================================================ claims
Exited == pc = "exited"

\* The main-chain fetches started so far, as positions of fetchLog.
MainFetches == {k \in 1..Len(fetchLog) : fetchLog[k].main}

\* What the boundary check does, whether or not --stop-at was given: it
\* ends the run exactly for the ids <= the number stopAtTweetInt converts
\* to, and no such id is fetched as a main-chain post.
StopAtLemma ==
  /\ \A k \in MainFetches : fetchLog[k].id > ToNumeric(cliArgs.stopAt)
  /\ exitReason = "stop-at" =>
       /\ tweetID <= ToNumeric(cliArgs.stopAt)
       /\ exitCode = <<ExitClean>>
       /\ Len(reported) = 1
       /\ reported[1].message = "Reached or passed the requested id."

\* C1: no main-chain post with an id <= the configured boundary is ever
\* fetched; a run that ends with "Reached or passed the requested id" has a
\* boundary configured, its current id is <= that boundary, it exits with
\* code 0 after one report; with no boundary configured the check never
\* ends the run.
C1_StopBoundary ==
  /\ \A k \in MainFetches :
       cliArgs.stopAt # <<>> => fetchLog[k].id > cliArgs.stopAt[1]
  /\ exitReason = "stop-at" =>
       /\ cliArgs.stopAt # <<>>
       /\ tweetID <= cliArgs.stopAt[1]
       /\ exitCode = <<ExitClean>>
       /\ Len(reported) = 1
       /\ reported[1].message = "Reached or passed the requested id."

\* The thread A <- B <- ... started at A with --stop-at B: the first tweet
\* served is A, and its reply-parent is the boundary.
C2_Scenario ==
  /\ cliArgs.stopAt # <<>>
  /\ served # <<>>
  /\ served[1].in_reply_to_status_id_str # NoId
  /\ served[1].in_reply_to_status_id_str = cliArgs.stopAt[1]

\* C2 (as claimed): in the scenario the run that stops at the boundary has
\* fetched A and then B as main-chain posts and reports processed = 2.
C2_StopsAfterB ==
  (C2_Scenario /\ exitReason = "stop-at") =>
     /\ \E k \in MainFetches : fetchLog[k].id = cliArgs.stopAt[1]
     /\ tweetCounter = 2
     /\ reported[1].processed = 2

\* C2 (amended): in the scenario A is the only post fetched as a main-chain
\* post (neither B nor C is), and the run that stops at the boundary does
\* so on B's id, before fetching it, and reports processed = 1.
C2_StopsBeforeB ==
  C2_Scenario =>
     /\ MainFetches = {1}
     /\ fetchLog[1].id = served[1].id_str
     /\ exitReason = "stop-at" =>
          /\ tweetID = cliArgs.stopAt[1]
          /\ tweetCounter = 1
          /\ reported[1].processed = 1

C2_Witness ==
  /\ C2_Scenario
  /\ cliArgs.limit = <<>>
  /\ exitReason = "stop-at"
  /\ tweetCounter = 1

\* C3: with limit = 1, a run whose first fetch succeeded and that ended
\* without a fetch failure ended with "reached the limit", exit code 0 and
\* processed = 1, having fetched exactly one main-chain post.
C3_LimitOne ==
  (cliArgs.limit = <<1>> /\ Exited /\ served # <<>> /\ fetchFailure = <<>>) =>
     /\ exitReason = "limit"
     /\ exitCode = <<ExitClean>>
     /\ tweetCounter = 1
     /\ Len(reported) = 1 /\ reported[1].processed = 1
     /\ MainFetches = {1}

\* C4: every session settled by the timeout, by the overwrite prompt or by
\* a close with a nonzero status has an entry for its post in the ledger.
C4_DownloadFailuresRecorded ==
  \A i \in 1..Len(sessions) :
     (\/ sessions[i].resolved \in {"timeout", "already exists"}
      \/ sessions[i].resolved = "close" /\ sessions[i].code # <<0>>)
     => sessions[i].id_str \in DOMAIN failedDownloads

\* C5: after a fetch failed the process has exited with code 1, nothing
\* was fetched or spawned since, the failing iteration's post was not
\* counted, and for an HTTP status the ledger, and the report printed on
\* the way out, hold the failing id with the status reason.
C5_FetchFailureFatal ==
  fetchFailure # <<>> =>
     LET f == fetchFailure[1] IN
     /\ Exited
     /\ exitCode = <<ExitError>>
     /\ Len(fetchLog) = f.fetches
     /\ fetchLog[Len(fetchLog)].id = f.id
     /\ Len(served) = f.fetches - 1
     /\ \A i \in 1..Len(sessions) : sessions[i].resolved # ""
     /\ tweetCounter = f.counter
     /\ Cardinality(MainFetches) = tweetCounter + 1
     /\ f.kind = "http" =>
          /\ f.id \in DOMAIN failedDownloads
          /\ failedDownloads[f.id] = "Download failed with a 404 error."
          /\ Len(reported) = 1
          /\ reported[1].failures = failedDownloads

C5_Witness ==
  /\ fetchFailure # <<>>
  /\ fetchFailure[1].kind = "http"
  /\ frames # <<>>
  /\ tweetCounter > 0

\* C6: every exit during or after traversal was preceded by exactly one
\* call of the reporter, which printed the processed-count and the ledger.
C6_ReportOnEveryExit ==
  (Exited /\ exitReason # "mkdir") =>
     /\ Len(reported) = 1
     /\ reported[1].processed = tweetCounter
     /\ reported[1].failures = failedDownloads

\* C7: a run ended by an interrupt signal has printed the exit report with
\* the processed-count and the ledger accumulated so far.
C7_InterruptReports ==
  pc = "killed" =>
     /\ Len(reported) = 1
     /\ reported[1].processed = tweetCounter
     /\ reported[1].failures = failedDownloads

\* C8: a run on which every fetch succeeded ends with exit code 0, for one
\* of the three clean reasons.
C8_CleanTermination ==
  (Exited /\ exitReason # "mkdir" /\ fetchFailure = <<>>) =>
     /\ exitCode = <<ExitClean>>
     /\ exitReason \in {"stop-at", "limit", "beginning"}

\* C9: once a session has settled by the timeout, its process was killed
\* and the ledger's entry for its post has the reason "timeout".
C9_TimeoutReasonStays ==
  \A i \in 1..Len(sessions) :
     sessions[i].resolved = "timeout" =>
        /\ sessions[i].killed
        /\ sessions[i].id_str \in DOMAIN failedDownloads
        /\ failedDownloads[sessions[i].id_str] = "timeout"

\* A step in which the timeout callback, or the interval callback, of
\* session i runs.
TimeoutFired(i) ==
  /\ sessions[i].ffmpegTimeout
  /\ ~sessions'[i].ffmpegTimeout
  /\ ~sessions'[i].closed

CheckinFired(i) ==
  /\ sessions[i].fFmpegOutput
  /\ ~sessions'[i].fFmpegOutput
  /\ sessions'[i].ffmpegTimeout = sessions[i].ffmpegTimeout

\* C10: after a session has settled by the overwrite prompt, neither its
\* timeout nor its checkpoint interval fires.
C10_NoTimerAfterPrompt ==
  [][\A i \in 1..Len(sessions) :
        sessions[i].resolved = "already exists" =>
           ~TimeoutFired(i) /\ ~CheckinFired(i)]_vars

\* The tweet carries media whose video has variants, none of them an HLS
\* manifest.
NonManifestOnly(t) ==
  /\ t.extended_entities # <<>>
  /\ t.extended_entities[1].media[1].video_info # <<>>
  /\ LET variants == t.extended_entities[1].media[1].video_info[1].variants
     IN  \A k \in 1..Len(variants) : variants[k] # ManifestType

\* C11: when fetchVideo handles a tweet whose variants are all of a type
\* other than the manifest type, it starts no session and raises no error:
\* the run goes on to findNextTweet, where the tweet is counted.
C11_NonManifestSkipped ==
  [][(pc = "fetchVideo" /\ NonManifestOnly(tweet) /\ pc' # "killed") =>
        /\ pc' = "findNextTweet"
        /\ sessions' = sessions
        /\ exitCode' = exitCode]_vars

\* The tweet has neither media nor a quoted tweet.
NoMediaNoQuote(t) ==
  /\ t.extended_entities = <<>>
  /\ t.quoted_status_id_str = NoId

\* C12: for a main-chain tweet with no media and no quoted tweet,
\* fetchVideo starts no session and no further fetch and hands the tweet to
\* findNextTweet; findNextTweet counts it and then ends the run at the limit,
\* goes on to the tweet's reply-parent, or ends the run at the beginning of
\* the thread.
C12_NoMediaProceeds ==
  [][/\ (pc = "fetchVideo" /\ frames = <<>> /\ NoMediaNoQuote(tweet)
            /\ pc' # "killed") =>
          /\ pc' = "findNextTweet"
          /\ tweet' = tweet
          /\ sessions' = sessions
          /\ fetchLog' = fetchLog
          /\ tweetCounter' = tweetCounter
     /\ (pc = "findNextTweet" /\ NoMediaNoQuote(tweet) /\ pc' # "killed") =>
          /\ tweetCounter' = tweetCounter + 1
          /\ sessions' = sessions
          /\ fetchLog' = fetchLog
          /\ IF cliArgs.limit # <<>> /\ tweetCounter' >= cliArgs.limit[1]
             THEN pc' = "exited" /\ exitReason' = "limit"
             ELSE IF tweet.in_reply_to_status_id_str # NoId
             THEN /\ pc' = "downloadTweet"
                  /\ tweetID' = tweet.in_reply_to_status_id_str
             ELSE pc' = "exited" /\ exitReason' = "beginning"]_vars

C12_Witness ==
  /\ pc = "findNextTweet"
  /\ NoMediaNoQuote(tweet)
  /\ tweet.in_reply_to_status_id_str # NoId
  /\ sessions = <<>>
  /\ Len(fetchLog) = 1

\* C13: once a session has settled, its settlement reason is fixed, its
\* remaining timers are cancelled, and no later event of the session
\* changes the ledger.
C13_SettleOnce ==
  [][\A i \in 1..Len(sessions) :
        sessions[i].resolved # "" =>
           /\ sessions'[i].resolved = sessions[i].resolved
           /\ ~sessions[i].ffmpegTimeout
           /\ ~sessions[i].ffmpegCheckin
           /\ sessions'[i] # sessions[i] => failedDownloads' = failedDownloads]_vars

\* Session i is live: its process has not closed, or one of its timers is
\* still pending.
Live(i) ==
  \/ ~sessions[i].closed
  \/ sessions[i].ffmpegTimeout
  \/ sessions[i].ffmpegCheckin

\* C14: while the run goes on, at most one session is live, and no fetch
\* and no new session is started while an earlier session is live.
C14_StrictSequencing ==
  Running =>
     /\ Cardinality({i \in 1..Len(sessions) : Live(i)}) <= 1
     /\ pc = "getTweetJson" => \A i \in 1..Len(sessions) : ~Live(i)
     /\ pc = "runFfmpeg" => \A i \in 1..(Len(sessions) - 1) : ~Live(i)

\* A main-chain tweet has been requested whose handling has not come to
\* its end in findNextTweet: it is under way, or a fetch made for it failed.
IterationOpen ==
  \/ pc \in {"getTweetJson", "fetchVideo", "runFfmpeg", "findNextTweet"}
  \/ Exited /\ fetchFailure # <<>>

\* C15: tweetCounter starts at 0 and never decreases; it grows by one
\* exactly in findNextTweet, once for each main-chain tweet that was fetched
\* and checked for media, with or without a download, so that it always
\* equals the number of main-chain tweets requested less the one whose
\* handling is open; a tweet whose fetch fails is not counted.
C15_ProcessedCount ==
  /\ [](IF pc = "killed"
        THEN tweetCounter \in {Cardinality(MainFetches),
                               Cardinality(MainFetches) - 1}
        ELSE tweetCounter =
               Cardinality(MainFetches) - (IF IterationOpen THEN 1 ELSE 0))
  /\ [][/\ tweetCounter' \in {tweetCounter, tweetCounter + 1}
        /\ tweetCounter' # tweetCounter => pc = "findNextTweet"
        /\ fetchFailure' # fetchFailure => tweetCounter' = tweetCounter]_vars

LastMainServed ==
  LET mains == {k \in 1..Len(served) : served[k].main}
  IN  served[CHOOSE k \in mains : \A j \in mains : j <= k]

\* C17: the id handed to downloadTweet after a tweet was handled is the
\* reply-parent of the main-chain tweet served last, whatever tweets were
\* fetched through quotes in between, and the run ends at the beginning of
\* the thread exactly when that main-chain tweet has no reply-parent.
C17_ResumesFromMain ==
  /\ (pc = "downloadTweet" /\ served # <<>>) =>
        /\ tweetID = LastMainServed.in_reply_to_status_id_str
        /\ tweetID # NoId
  /\ (Exited /\ exitReason = "beginning") =>
        LastMainServed.in_reply_to_status_id_str = NoId

\* The tweet served last was reached through a quote and has a reply-parent
\* of its own, which is not the id the traversal goes on with.
C17_Witness ==
  /\ pc = "downloadTweet"
  /\ served # <<>>
  /\ ~served[Len(served)].main
  /\ served[Len(served)].in_reply_to_status_id_str # NoId
  /\ served[Len(served)].in_reply_to_status_id_str # tweetID

\* C18: the comparison with stopAtTweetInt is made on the ids handed to
\* downloadTweet and on no others.  It is the only test before a main-chain
\* fetch: the limit plays no part there.  A quoted tweet whose id is at or
\* below the boundary is fetched all the same, and downloaded when it has a
\* manifest variant.
C18_BoundaryOnMainChainOnly ==
  [][/\ (pc = "downloadTweet" /\ pc' # "killed") =>
          IF tweetID <= ToNumeric(stopAtTweetInt)
          THEN pc' = "exited" /\ exitReason' = "stop-at"
          ELSE /\ pc' = "getTweetJson"
               /\ tweetID' = tweetID
               /\ fetchLog' = Append(fetchLog, [id |-> tweetID, main |-> TRUE])
     /\ (/\ pc = "fetchVideo"
         /\ tweet.extended_entities = <<>>
         /\ tweet.quoted_status_id_str # NoId
         /\ tweet.quoted_status_id_str <= ToNumeric(stopAtTweetInt)
         /\ pc' # "killed") =>
          /\ pc' = "getTweetJson"
          /\ tweetID' = tweet.quoted_status_id_str
     /\ (/\ pc = "fetchVideo"
         /\ frames # <<>>
         /\ tweet.id_str <= ToNumeric(stopAtTweetInt)
         /\ tweet.extended_entities # <<>>
         /\ VideoInfo(tweet) # <<>>
         /\ VideoInfo(tweet)[1] # <<>>
         /\ pc' # "killed") =>
          /\ pc' = "runFfmpeg"
          /\ sessions' = Append(sessions, NewSession(tweet.id_str))]_vars

\* A quoted tweet at or below the configured boundary is being downloaded,
\* in a run whose limit was already reached before its first fetch.
C18_Witness ==
  /\ pc = "runFfmpeg"
  /\ frames # <<>>
  /\ stopAtTweetInt # <<>>
  /\ tweet.id_str <= stopAtTweetInt[1]
  /\ cliArgs.limit # <<>>
  /\ tweetCounter >= cliArgs.limit[1]

\* max(1, limit)
MaxOneLimit == IF cliArgs.limit[1] > 1 THEN cliArgs.limit[1] ELSE 1

\* C19: tweetCounter never exceeds max(1, limit); a run that ends with
\* "Reached the limit" has tweetCounter = max(1, limit); and a run that
\* has ended after a tweet was served and no fetch failed has counted at
\* least one tweet, whatever the limit.
C19_LimitAfterIncrement ==
  /\ cliArgs.limit # <<>> => tweetCounter <= MaxOneLimit
  /\ (Exited /\ exitReason = "limit") => tweetCounter = MaxOneLimit
  /\ (Exited /\ served # <<>> /\ fetchFailure = <<>>) => tweetCounter >= 1

====
